---- MODULE Spec2Model ----
\* UBX protocol stream decoder (ayavilevich/ubx-protocol-parser).
\* Two versions of the decoder are modelled side by side:
\*   "index"     - src/src/index.js      (resets after a failed checksum)
\*   "backtrack" - src/unnamed/part_000  (re-injects the failed frame's bytes)
\* A behaviour runs one decoder object over one byte stream (wire) that the
\* transport hands over in chunks.
EXTENDS Integers, Sequences, FiniteSets, TLC

\* ---------------------------------------------------------------------------
\* Bounds of the model
\* ---------------------------------------------------------------------------
MaxPieces == 2
MaxWire == 19
MaxChunk == 3

\* ---------------------------------------------------------------------------
\* Program constants
\* ---------------------------------------------------------------------------
PACKET_SYNC_1 == 0
PACKET_SYNC_2 == 1
PACKET_CLASS == 2
PACKET_ID == 3
PACKET_LENGTH == 4
PACKET_LENGTH_2 == 5
PACKET_PAYLOAD == 6
PACKET_CHECKSUM == 7
DEFAULT_MAX_PACKET_PAYLOAD_LENGTH == 300
SYNC_CHAR_1 == 181
SYNC_CHAR_2 == 98

\* JavaScript null (payload before allocation); bytes are 0..255, so the
\* value cannot be mistaken for a buffer.
Null == << -1 >>

packetTemplate == [class |-> 0, id |-> 0, length |-> 0, payload |-> Null, checksum |-> 0]

\* Assignment to a property of a JavaScript object: overwrites the property
\* or creates it (length1, length2, checksum1, checksum2 in part_000).
SetField(obj, key, value) == (key :> value) @@ obj

\* Buffer.alloc(n): n zero bytes.
BufferAlloc(n) == [k \in 1..n |-> 0]

\* External length table ./ubx (packetClassIdToLength), keyed by
\* `${class}_${id}`; the key is modelled as the pair <<class, id>>.
packetClassIdToLength == [key \in {<<2, 1>>} |-> 2]

HasExpectedLength(class, id) == <<class, id>> \in DOMAIN packetClassIdToLength

\* ---------------------------------------------------------------------------
\* calcCheckSum
\* ---------------------------------------------------------------------------
RECURSIVE SumLoop(_, _, _, _)
SumLoop(buffer, i, a, b) ==
  IF i < Len(buffer)
  THEN LET a1 == (a + buffer[i + 1]) % 256
           b1 == (b + a1) % 256
       IN SumLoop(buffer, i + 1, a1, b1)
  ELSE (b * 256) + a

\* A checksum that leaves the two length bytes out.
calcCheckSumNoLength(messageClass, id, length, payload) ==
  SumLoop(<< messageClass, id >> \o payload, 0, 0, 0)

calcCheckSum(messageClass, id, length, payload) ==
  LET header == << messageClass, id, length % 256, (length \div 256) % 256 >>
      buffer == header \o payload
  IN SumLoop(buffer, 0, 0, 0)

\* ---------------------------------------------------------------------------
\* The decoder object and one call of _transform
\* A machine m is [this, data, i, offs, classOff, out]:
\*   this     - the fields of the UBXProtocolParser object
\*   data, i  - the working buffer and read index of the running _transform
\*   out      - everything pushed or emitted so far, in order
\*   offs     - (history) the stream offset each entry of data came from
\*   classOff - (history) the stream offset of the class byte of the frame
\*              in progress
\* ---------------------------------------------------------------------------
NewParser(maxLen) ==
  [packet |-> packetTemplate,
   payloadPosition |-> 0,
   packetStartFound |-> FALSE,
   packetState |-> PACKET_SYNC_1,
   streamIndex |-> 0,
   maxPacketPayloadLength |-> maxLen]

\* A reset that puts the template's values into the existing packet object:
\* fields the template does not have keep their values.
resetStateInPlace(this) ==
  [this EXCEPT !.packetState = PACKET_SYNC_1,
               !.packet = [k \in DOMAIN @ |-> IF k \in DOMAIN packetTemplate
                                               THEN packetTemplate[k] ELSE @[k]],
               !.payloadPosition = 0,
               !.packetStartFound = FALSE]

\* A reset that leaves this.packet as it is.
resetStateKeepPacket(this) ==
  [this EXCEPT !.packetState = PACKET_SYNC_1,
               !.payloadPosition = 0,
               !.packetStartFound = FALSE]

resetState(this) ==
  [this EXCEPT !.packetState = PACKET_SYNC_1,
               !.packet = packetTemplate,
               !.payloadPosition = 0,
               !.packetStartFound = FALSE]

\* this.push(...) / this.emit(name, ...): the output is recorded with the
\* stream offset of the byte that caused it and of its frame's class byte.
Emit(m, name, arg) ==
  [m EXCEPT !.out = Append(@, [event |-> name, arg |-> arg,
                               at |-> m.offs[m.i + 1], start |-> m.classOff])]

\* payload[payloadPosition] = byte on a Buffer: a write inside the buffer.
WritePayload(payload, position, byte) ==
  IF position + 1 \in DOMAIN payload THEN [payload EXCEPT ![position + 1] = byte] ELSE payload

\* A PACKET_LENGTH_2 case that allocates the buffer on every payload byte.
AccumulatePayloadRealloc(this, byte) ==
  LET buf == BufferAlloc(this.packet.length)
      position == this.payloadPosition
      t1 == [this EXCEPT !.packet.payload = WritePayload(buf, position, byte),
                         !.payloadPosition = position + 1]
  IN IF t1.payloadPosition >= t1.packet.length
     THEN [t1 EXCEPT !.packetState = PACKET_PAYLOAD]
     ELSE t1

\* The PACKET_LENGTH_2 case, identical in both files.
AccumulatePayload(this, byte) ==
  LET alloc == this.packet.payload = Null
      buf == IF alloc THEN BufferAlloc(this.packet.length) ELSE this.packet.payload
      position == IF alloc THEN 0 ELSE this.payloadPosition
      t1 == [this EXCEPT !.packet.payload = WritePayload(buf, position, byte),
                         !.payloadPosition = position + 1]
  IN IF t1.payloadPosition >= t1.packet.length
     THEN [t1 EXCEPT !.packetState = PACKET_PAYLOAD]
     ELSE t1

\* A validator that also rejects a length equal to the limit.
ValidateLengthStrict(m) ==
  LET this == m.this
      p == this.packet
  IN IF this.maxPacketPayloadLength # 0 /\ p.length >= this.maxPacketPayloadLength
     THEN [Emit(m, "payload_too_large",
                [packet |-> p, maxPacketPayloadLength |-> this.maxPacketPayloadLength])
             EXCEPT !.this = resetState(this)]
     ELSE IF p.length = 0
     THEN [m EXCEPT !.this.packetState = PACKET_PAYLOAD,
                    !.this.packet.payload = BufferAlloc(0)]
     ELSE IF HasExpectedLength(p.class, p.id) /\ p.length # packetClassIdToLength[<<p.class, p.id>>]
     THEN [Emit(m, "wrong_payload_length",
                [packet |-> p, expectedPayloadLength |-> packetClassIdToLength[<<p.class, p.id>>]])
             EXCEPT !.this = resetState(this)]
     ELSE [m EXCEPT !.this.packetState = PACKET_LENGTH_2]

\* A validator that skips the oversize frame's declared payload instead of
\* resetting: it goes on to accumulate the payload after the event.
ValidateLengthSkipping(m) ==
  LET this == m.this
      p == this.packet
  IN IF this.maxPacketPayloadLength # 0 /\ p.length > this.maxPacketPayloadLength
     THEN [Emit(m, "payload_too_large",
                [packet |-> p, maxPacketPayloadLength |-> this.maxPacketPayloadLength])
             EXCEPT !.this.packetState = PACKET_LENGTH_2]
     ELSE IF p.length = 0
     THEN [m EXCEPT !.this.packetState = PACKET_PAYLOAD,
                    !.this.packet.payload = BufferAlloc(0)]
     ELSE IF HasExpectedLength(p.class, p.id) /\ p.length # packetClassIdToLength[<<p.class, p.id>>]
     THEN [Emit(m, "wrong_payload_length",
                [packet |-> p, expectedPayloadLength |-> packetClassIdToLength[<<p.class, p.id>>]])
             EXCEPT !.this = resetState(this)]
     ELSE [m EXCEPT !.this.packetState = PACKET_LENGTH_2]

\* A validator without the poll packet branch.
ValidateLengthNoPoll(m) ==
  LET this == m.this
      p == this.packet
  IN IF this.maxPacketPayloadLength # 0 /\ p.length > this.maxPacketPayloadLength
     THEN [Emit(m, "payload_too_large",
                [packet |-> p, maxPacketPayloadLength |-> this.maxPacketPayloadLength])
             EXCEPT !.this = resetState(this)]
     ELSE IF HasExpectedLength(p.class, p.id) /\ p.length # packetClassIdToLength[<<p.class, p.id>>]
     THEN [Emit(m, "wrong_payload_length",
                [packet |-> p, expectedPayloadLength |-> packetClassIdToLength[<<p.class, p.id>>]])
             EXCEPT !.this = resetState(this)]
     ELSE [m EXCEPT !.this.packetState = PACKET_LENGTH_2]

\* The PACKET_LENGTH case after the length has been combined, identical in
\* both files.
ValidateLength(m) ==
  LET this == m.this
      p == this.packet
  IN IF this.maxPacketPayloadLength # 0 /\ p.length > this.maxPacketPayloadLength
     THEN [Emit(m, "payload_too_large",
                [packet |-> p, maxPacketPayloadLength |-> this.maxPacketPayloadLength])
             EXCEPT !.this = resetState(this)]
     ELSE IF p.length = 0
     THEN [m EXCEPT !.this.packetState = PACKET_PAYLOAD,
                    !.this.packet.payload = BufferAlloc(0)]
     ELSE IF HasExpectedLength(p.class, p.id) /\ p.length # packetClassIdToLength[<<p.class, p.id>>]
     THEN [Emit(m, "wrong_payload_length",
                [packet |-> p, expectedPayloadLength |-> packetClassIdToLength[<<p.class, p.id>>]])
             EXCEPT !.this = resetState(this)]
     ELSE [m EXCEPT !.this.packetState = PACKET_LENGTH_2]

\* A match branch that pushes zero-length frames as packets too.
EmitCheckedAlways(m) ==
  LET p == m.this.packet
  IN IF p.length >= 0
     THEN Emit(m, "data", [messageClass |-> p.class, messageId |-> p.id, payload |-> p.payload])
     ELSE Emit(m, "polling_message", [packet |-> p])

\* The checksum-match branch, identical in both files.
EmitChecked(m) ==
  LET p == m.this.packet
  IN IF p.length > 0
     THEN Emit(m, "data", [messageClass |-> p.class, messageId |-> p.id, payload |-> p.payload])
     ELSE Emit(m, "polling_message", [packet |-> p])

\* A sync-trailer case in which only 0x62 keeps the frame start.
SyncTrailerStrict(m, byte) ==
  IF byte = SYNC_CHAR_2 THEN [m EXCEPT !.this.packetState = PACKET_SYNC_2]
  ELSE [m EXCEPT !.this = resetState(m.this)]

\* The PACKET_SYNC_1 case, identical in both files.
SyncTrailer(m, byte) ==
  IF byte = SYNC_CHAR_2 THEN [m EXCEPT !.this.packetState = PACKET_SYNC_2]
  ELSE IF byte = SYNC_CHAR_1 THEN m
  ELSE [m EXCEPT !.this = resetState(m.this)]

\* The idle branch (packetStartFound false), identical in both files.
Idle(m, byte) ==
  IF byte = SYNC_CHAR_1
  THEN [m EXCEPT !.this.packetStartFound = TRUE, !.this.packetState = PACKET_SYNC_1]
  ELSE m

\* End of one loop iteration.
Advance(m) == [m EXCEPT !.this.streamIndex = @ + 1, !.i = @ + 1]

\* One iteration of the for loop of src/src/index.js.
StepIndex(m) ==
  LET byte == m.data[m.i + 1]
      this == m.this
      st == this.packetState
      body ==
        IF this.packetStartFound
        THEN CASE st = PACKET_SYNC_1 -> SyncTrailer(m, byte)
               [] st = PACKET_SYNC_2 ->
                    [m EXCEPT !.this.packet.class = byte, !.this.packetState = PACKET_CLASS,
                              !.classOff = m.offs[m.i + 1]]
               [] st = PACKET_CLASS ->
                    [m EXCEPT !.this.packet.id = byte, !.this.packetState = PACKET_ID]
               [] st = PACKET_ID ->
                    [m EXCEPT !.this.packet.length = byte, !.this.packetState = PACKET_LENGTH]
               [] st = PACKET_LENGTH ->
                    ValidateLength([m EXCEPT !.this.packet.length = @ + byte * 256])
               [] st = PACKET_LENGTH_2 ->
                    [m EXCEPT !.this = AccumulatePayload(this, byte)]
               [] st = PACKET_PAYLOAD ->
                    [m EXCEPT !.this.packet.checksum = byte, !.this.packetState = PACKET_CHECKSUM]
               [] st = PACKET_CHECKSUM ->
                    LET m1 == [m EXCEPT !.this.packet.checksum = @ + byte * 256]
                        p == m1.this.packet
                        checksum == calcCheckSum(p.class, p.id, p.length, p.payload)
                        m2 == IF checksum = p.checksum
                              THEN EmitChecked(m1)
                              ELSE Emit(m1, "failed_checksum", [packet |-> p, checksum |-> checksum])
                    IN [m2 EXCEPT !.this = resetState(m2.this)]
               [] OTHER -> m
        ELSE Idle(m, byte)
  IN Advance(body)

\* A back track that moves streamIndex back by the header and the payload
\* only.
BackTrackShortIndex(m) ==
  LET p == m.this.packet
      n == Len(p.payload)
      headerBuffer == << p.class, p.id, n % 256, (n \div 256) % 256 >>
      rebuilt == headerBuffer \o p.payload \o << p.checksum1, p.checksum2 >>
  IN [m EXCEPT !.data = rebuilt \o SubSeq(m.data, m.i + 2, Len(m.data)),
               !.offs = [k \in 1..Len(rebuilt) |-> m.classOff + k - 1]
                          \o SubSeq(m.offs, m.i + 2, Len(m.offs)),
               !.i = -1,
               !.this.streamIndex = @ - (Len(headerBuffer) + n)]

\* A back track to the sync point itself that also takes back the event of
\* the failure: the frame is read again from its first sync byte.
BackTrackRestart(m) ==
  LET p == m.this.packet
      n == Len(p.payload)
      rebuilt == << SYNC_CHAR_1, SYNC_CHAR_2, p.class, p.id, n % 256, (n \div 256) % 256 >>
                   \o p.payload \o << p.checksum1, p.checksum2 >>
  IN [m EXCEPT !.data = rebuilt \o SubSeq(m.data, m.i + 2, Len(m.data)),
               !.offs = [k \in 1..Len(rebuilt) |-> m.classOff + k - 3]
                          \o SubSeq(m.offs, m.i + 2, Len(m.offs)),
               !.i = -1,
               !.out = SubSeq(@, 1, Len(@) - 1),
               !.this.streamIndex = @ - (n + 8)]

\* A back track that takes the FailedChecksum event back.
BackTrackDroppingEvent(m) ==
  LET p == m.this.packet
      n == Len(p.payload)
      headerBuffer == << p.class, p.id, n % 256, (n \div 256) % 256 >>
      rebuilt == headerBuffer \o p.payload \o << p.checksum1, p.checksum2 >>
  IN [m EXCEPT !.data = rebuilt \o SubSeq(m.data, m.i + 2, Len(m.data)),
               !.offs = [k \in 1..Len(rebuilt) |-> m.classOff + k - 1]
                          \o SubSeq(m.offs, m.i + 2, Len(m.offs)),
               !.i = -1,
               !.out = SubSeq(@, 1, Len(@) - 1),
               !.this.streamIndex = @ - (Len(headerBuffer) + n + 2)]

\* A back track that puts the rebuilt frame in front of the whole chunk.
BackTrackWholeChunk(m) ==
  LET p == m.this.packet
      n == Len(p.payload)
      headerBuffer == << p.class, p.id, n % 256, (n \div 256) % 256 >>
      rebuilt == headerBuffer \o p.payload \o << p.checksum1, p.checksum2 >>
  IN [m EXCEPT !.data = rebuilt \o m.data,
               !.offs = [k \in 1..Len(rebuilt) |-> m.classOff + k - 1] \o m.offs,
               !.i = -1,
               !.this.streamIndex = @ - (Len(headerBuffer) + n + 2)]

\* A back track that only moves the read index back inside the current chunk.
BackTrackInChunk(m) ==
  LET n == Len(m.this.packet.payload)
      target == IF m.i - (n + 5) > 0 THEN m.i - (n + 5) ELSE 0
  IN [m EXCEPT !.i = target - 1,
               !.this.streamIndex = @ - (m.i - target + 1)]

\* A back track that re-injects the header and the checksum bytes but not
\* the payload.
BackTrackNoPayload(m) ==
  LET p == m.this.packet
      rebuilt == << p.class, p.id, 0, 0, p.checksum1, p.checksum2 >>
  IN [m EXCEPT !.data = rebuilt \o SubSeq(m.data, m.i + 2, Len(m.data)),
               !.offs = [k \in 1..6 |-> m.classOff + k - 1] \o SubSeq(m.offs, m.i + 2, Len(m.offs)),
               !.i = -1,
               !.this.streamIndex = @ - 6]

\* A back track to the sync point itself: the two sync bytes are re-injected
\* as well.
BackTrackToSync(m) ==
  LET p == m.this.packet
      n == Len(p.payload)
      rebuilt == << SYNC_CHAR_1, SYNC_CHAR_2, p.class, p.id, n % 256, (n \div 256) % 256 >>
                   \o p.payload \o << p.checksum1, p.checksum2 >>
  IN [m EXCEPT !.data = rebuilt \o SubSeq(m.data, m.i + 2, Len(m.data)),
               !.offs = [k \in 1..Len(rebuilt) |-> m.classOff + k - 3]
                          \o SubSeq(m.offs, m.i + 2, Len(m.offs)),
               !.i = -1,
               !.this.streamIndex = @ - (n + 8)]

\* The back track of part_000 on a checksum mismatch: the frame's bytes are
\* rebuilt from the packet and put in front of the rest of the chunk.
BackTrack(m) ==
  LET p == m.this.packet
      n == Len(p.payload)
      headerBuffer == << p.class, p.id, n % 256, (n \div 256) % 256 >>
      rebuilt == headerBuffer \o p.payload \o << p.checksum1, p.checksum2 >>
      rest == SubSeq(m.data, m.i + 2, Len(m.data))
      restOffs == SubSeq(m.offs, m.i + 2, Len(m.offs))
  IN [m EXCEPT !.data = rebuilt \o rest,
               !.offs = [k \in 1..Len(rebuilt) |-> m.classOff + k - 1] \o restOffs,
               !.i = -1,
               !.this.streamIndex = @ - (Len(headerBuffer) + n + 2)]

\* One iteration of the while loop of src/unnamed/part_000.
StepBacktrack(m) ==
  LET byte == m.data[m.i + 1]
      this == m.this
      st == this.packetState
      body ==
        IF this.packetStartFound
        THEN CASE st = PACKET_SYNC_1 -> SyncTrailer(m, byte)
               [] st = PACKET_SYNC_2 ->
                    [m EXCEPT !.this.packet.class = byte, !.this.packetState = PACKET_CLASS,
                              !.classOff = m.offs[m.i + 1]]
               [] st = PACKET_CLASS ->
                    [m EXCEPT !.this.packet.id = byte, !.this.packetState = PACKET_ID]
               [] st = PACKET_ID ->
                    [m EXCEPT !.this.packet = SetField(@, "length1", byte),
                              !.this.packetState = PACKET_LENGTH]
               [] st = PACKET_LENGTH ->
                    LET p1 == SetField(this.packet, "length2", byte)
                        p2 == [p1 EXCEPT !.length = p1.length1 + p1.length2 * 256]
                    IN ValidateLength([m EXCEPT !.this.packet = p2])
               [] st = PACKET_LENGTH_2 ->
                    [m EXCEPT !.this = AccumulatePayload(this, byte)]
               [] st = PACKET_PAYLOAD ->
                    [m EXCEPT !.this.packet = SetField(@, "checksum1", byte),
                              !.this.packetState = PACKET_CHECKSUM]
               [] st = PACKET_CHECKSUM ->
                    LET p1 == SetField(this.packet, "checksum2", byte)
                        p == [p1 EXCEPT !.checksum = p1.checksum1 + p1.checksum2 * 256]
                        m1 == [m EXCEPT !.this.packet = p]
                        checksum == calcCheckSum(p.class, p.id, p.length, p.payload)
                        m2 == IF checksum = p.checksum
                              THEN EmitChecked(m1)
                              ELSE BackTrack(Emit(m1, "failed_checksum",
                                                  [packet |-> p, checksum |-> checksum]))
                    IN [m2 EXCEPT !.this = resetState(m2.this)]
               [] OTHER -> m
        ELSE Idle(m, byte)
  IN Advance(body)

Step(im, m) == IF im = "index" THEN StepIndex(m) ELSE StepBacktrack(m)

\* The loop of _transform run to its end on machine m.
RECURSIVE Loop(_, _)
Loop(im, m) == IF m.i < Len(m.data) THEN Loop(im, Step(im, m)) ELSE m

\* A _flush that only calls cb.
FlushParserNoReset(this) == this

\* _flush: resetState and cb.
FlushParser(this) == resetState(this)

\* ---------------------------------------------------------------------------
\* The byte streams fed to the decoder
\* ---------------------------------------------------------------------------
\* Reference Fletcher-8 of the protocol, used to build the frames on the wire.
RECURSIVE Fletcher8(_, _, _)
Fletcher8(bytes, a, b) ==
  IF bytes = << >> THEN << a, b >>
  ELSE LET a1 == (a + Head(bytes)) % 256
       IN Fletcher8(Tail(bytes), a1, (b + a1) % 256)

FrameBody(cls, id, payload) ==
  << cls, id, Len(payload) % 256, Len(payload) \div 256 >> \o payload

\* A frame on the wire; d is added to the first checksum byte (0: well-formed).
FrameBytes(cls, id, payload, d) ==
  LET ck == Fletcher8(FrameBody(cls, id, payload), 0, 0)
  IN << SYNC_CHAR_1, SYNC_CHAR_2 >> \o FrameBody(cls, id, payload)
       \o << (ck[1] + d) % 256, ck[2] >>

FramePiece(cls, id, payload, d) ==
  [frame |-> TRUE, cls |-> cls, id |-> id, payload |-> payload, ckOK |-> (d = 0),
   bytes |-> FrameBytes(cls, id, payload, d)]

NoisePiece(bytes) ==
  [frame |-> FALSE, cls |-> 0, id |-> 0, payload |-> << >>, ckOK |-> FALSE, bytes |-> bytes]

InnerFrame == FrameBytes(1, 1, << 7 >>, 0)

\* The pieces streams are put together from: well-formed data and polling
\* frames, frames with a wrong checksum (one carrying a whole frame in its
\* payload), frames the validator rejects, and bytes outside any frame.
Pieces ==
  { FramePiece(1, 1, << 7 >>, 0),
    FramePiece(2, 1, << 7, 8 >>, 0),
    FramePiece(2, 1, << >>, 0),
    FramePiece(1, 1, << 7 >>, 1),
    FramePiece(1, 1, << >>, 1),
    FramePiece(1, 1, << SYNC_CHAR_1, SYNC_CHAR_2 >>, 0),
    FramePiece(1, 1, InnerFrame, 1),
    FramePiece(SYNC_CHAR_1, SYNC_CHAR_2, InnerFrame, 1),
    NoisePiece(<< SYNC_CHAR_1 >>),
    NoisePiece(<< 7 >>),
    NoisePiece(<< SYNC_CHAR_1, SYNC_CHAR_2, 2, 1, 3, 0 >>) }

RECURSIVE Flatten(_)
Flatten(pieces) ==
  IF pieces = << >> THEN << >> ELSE Head(pieces).bytes \o Flatten(Tail(pieces))

RECURSIVE PlansUpTo(_)
PlansUpTo(k) ==
  IF k = 0 THEN { << >> }
  ELSE LET prev == PlansUpTo(k - 1)
       IN prev \cup { Append(pl, x) : pl \in { q \in prev : Len(q) = k - 1 }, x \in Pieces }

Plans == { pl \in PlansUpTo(MaxPieces) : Len(Flatten(pl)) <= MaxWire }

MaxLengths == { 0, 1, DEFAULT_MAX_PACKET_PAYLOAD_LENGTH }

Impls == { "index", "backtrack" }

\* ---------------------------------------------------------------------------
\* State
\* ---------------------------------------------------------------------------
VARIABLES
  impl,      \* which of the two source files runs
  plan,      \* (history) the pieces the byte stream was put together from
  wire,      \* the byte stream of the transport
  pos,       \* number of bytes of wire handed to _transform so far
  pc,        \* "idle" between calls, "loop" inside _transform, "ended" after _flush
  parser,    \* the UBXProtocolParser object
  data,      \* working buffer of the running _transform
  i,         \* read index of the running _transform
  offs,      \* (history) stream offsets of the entries of data
  classOff,  \* (history) stream offset of the class byte of the frame in progress
  out,       \* everything pushed or emitted so far
  chunkStart, \* (history) stream offset of the first byte of the current chunk
  spanned    \* (history) a frame begun in an earlier chunk has been re-injected

vars == << impl, plan, wire, pos, pc, parser, data, i, offs, classOff, out, chunkStart, spanned >>

Machine ==
  [this |-> parser, data |-> data, i |-> i, offs |-> offs, classOff |-> classOff, out |-> out]

StartMachine(maxLen, bytes) ==
  [this |-> NewParser(maxLen), data |-> bytes, i |-> 0,
   offs |-> [k \in 1..Len(bytes) |-> k - 1], classOff |-> -1, out |-> << >>]

Init ==
  /\ impl \in Impls
  /\ plan \in Plans
  /\ wire = Flatten(plan)
  /\ pos = 0
  /\ pc = "idle"
  /\ \E maxLen \in MaxLengths : parser = NewParser(maxLen)
  /\ data = << >>
  /\ i = 0
  /\ offs = << >>
  /\ classOff = -1
  /\ out = << >>
  /\ chunkStart = 0
  /\ spanned = FALSE

\* The stream calls _transform with the next n bytes of the wire: a chunk of
\* up to MaxChunk bytes, or all the bytes that are left.
Transform(n) ==
  /\ pc = "idle"
  /\ pos + n <= Len(wire)
  /\ (n <= MaxChunk \/ pos + n = Len(wire))
  /\ data' = SubSeq(wire, pos + 1, pos + n)
  /\ offs' = [k \in 1..n |-> pos + k - 1]
  /\ i' = 0
  /\ pos' = pos + n
  /\ pc' = "loop"
  /\ chunkStart' = pos
  /\ UNCHANGED << impl, plan, wire, parser, classOff, out, spanned >>

\* One iteration of the loop of _transform.
LoopStep ==
  /\ pc = "loop"
  /\ i < Len(data)
  /\ LET n == Step(impl, Machine)
     IN /\ parser' = n.this
        /\ data' = n.data
        /\ i' = n.i
        /\ offs' = n.offs
        /\ classOff' = n.classOff
        /\ out' = n.out
        /\ spanned' = (spanned \/ (n.data # data /\ n.classOff < chunkStart))
  /\ UNCHANGED << impl, plan, wire, pos, pc, chunkStart >>

\* The loop is over: cb().
TransformReturn ==
  /\ pc = "loop"
  /\ i >= Len(data)
  /\ pc' = "idle"
  /\ data' = << >>
  /\ offs' = << >>
  /\ i' = 0
  /\ chunkStart' = pos
  /\ UNCHANGED << impl, plan, wire, pos, parser, classOff, out, spanned >>

\* The stream ends: _flush.
Flush ==
  /\ pc = "idle"
  /\ parser' = FlushParser(parser)
  /\ pc' = "ended"
  /\ UNCHANGED << impl, plan, wire, pos, data, i, offs, classOff, out, chunkStart, spanned >>

Next ==
  \/ \E n \in 1..MaxWire : Transform(n)
  \/ LoopStep
  \/ TransformReturn
  \/ Flush

Spec == Init /\ [][Next]_vars

\* ---------------------------------------------------------------------------
\* Properties
\* ---------------------------------------------------------------------------
Delivered == SubSeq(wire, 1, pos)

\* The decoder run from its constructed state over all bytes delivered so
\* far, handed over as one chunk.
WholeRun == Loop(impl, StartMachine(parser.maxPacketPayloadLength, Delivered))

\* C1: chunking invariance. Whenever a _transform call has returned, the
\* outputs so far (with their contents) and the decoder object are those of
\* a fresh decoder fed all delivered bytes as a single chunk, for both
\* decoders and any split; after _flush the object is that run's, reset.
ChunkingInvariance ==
  /\ pc = "idle" => (out = WholeRun.out /\ parser = WholeRun.this)
  /\ pc = "ended" => (out = WholeRun.out /\ parser = FlushParser(WholeRun.this))

\* C1 witness: the backtracking decoder has returned from a call in which it
\* re-injected a failed frame that began in an earlier chunk.
ChunkingInvarianceWitness ==
  /\ pc = "idle"
  /\ impl = "backtrack"
  /\ spanned
  /\ \E k \in 1..Len(out) : out[k].event = "data"

\* --- frames as the wire format defines them ---------------------------------
\* The validator lets a frame of this class, id and length through.
Accepted(maxLen, cls, id, len) ==
  /\ (maxLen = 0 \/ len <= maxLen)
  /\ (len = 0 \/ ~HasExpectedLength(cls, id) \/ packetClassIdToLength[<<cls, id>>] = len)

DeclaredLength(bytes, j) == bytes[j + 4] + 256 * bytes[j + 5]

\* bytes holds, from index j on, a complete frame with a matching checksum.
WellFormedAt(bytes, j) ==
  /\ j + 7 <= Len(bytes)
  /\ bytes[j] = SYNC_CHAR_1
  /\ bytes[j + 1] = SYNC_CHAR_2
  /\ j + 7 + DeclaredLength(bytes, j) <= Len(bytes)
  /\ Fletcher8(SubSeq(bytes, j + 2, j + 5 + DeclaredLength(bytes, j)), 0, 0)
       = << bytes[j + 6 + DeclaredLength(bytes, j)], bytes[j + 7 + DeclaredLength(bytes, j)] >>

FrameAt(bytes, j) ==
  [messageClass |-> bytes[j + 2], messageId |-> bytes[j + 3],
   payload |-> SubSeq(bytes, j + 6, j + 5 + DeclaredLength(bytes, j))]

MaxLen == parser.maxPacketPayloadLength

\* The stream starts with a frame F that the validator accepts and that has
\* a wrong checksum, and F has been handed over completely.
FailedFirstFrame ==
  /\ plan # << >>
  /\ plan[1].frame /\ ~plan[1].ckOK
  /\ Accepted(MaxLen, plan[1].cls, plan[1].id, Len(plan[1].payload))
  /\ pc # "loop"
  /\ pos >= Len(plan[1].bytes)

\* Index j of F's payload starts a well-formed data frame G that the validator accepts.
EmbeddedFrame(j) ==
  LET pl == plan[1].payload
  IN /\ WellFormedAt(pl, j)
     /\ DeclaredLength(pl, j) >= 1
     /\ Accepted(MaxLen, pl[j + 2], pl[j + 3], DeclaredLength(pl, j))

\* F's class, id and length bytes and its payload before index j hold no 0xB5.
CleanBefore(j) ==
  /\ plan[1].cls # SYNC_CHAR_1
  /\ plan[1].id # SYNC_CHAR_1
  /\ Len(plan[1].payload) % 256 # SYNC_CHAR_1
  /\ Len(plan[1].payload) \div 256 # SYNC_CHAR_1
  /\ \A k \in 1..(j - 1) : plan[1].payload[k] # SYNC_CHAR_1

\* FailedChecksum for F has been emitted and, after it, the Packet of G.
FailedThenPacket(j) ==
  \E k1 \in 1..Len(out) : \E k2 \in (k1 + 1)..Len(out) :
    /\ out[k1].event = "failed_checksum"
    /\ out[k1].start = 2
    /\ out[k1].arg.packet.class = plan[1].cls
    /\ out[k1].arg.packet.id = plan[1].id
    /\ out[k1].arg.packet.payload = plan[1].payload
    /\ out[k2].event = "data"
    /\ out[k2].arg = FrameAt(plan[1].payload, j)

\* C2 as stated: in the backtracking decoder every failed frame F whose
\* payload holds a well-formed frame G yields FailedChecksum for F and then
\* the Packet of G.
BacktrackingRecoveryAnyFrame ==
  (impl = "backtrack" /\ FailedFirstFrame) =>
    \A j \in 1..Len(plan[1].payload) : EmbeddedFrame(j) => FailedThenPacket(j)

\* C2 amended: in the backtracking decoder a failed frame F whose payload
\* holds a well-formed frame G, with no 0xB5 among F's class, id, length and
\* payload bytes in front of G, yields FailedChecksum for F and then the
\* Packet of G.
BacktrackingRecovery ==
  (impl = "backtrack" /\ FailedFirstFrame) =>
    \A j \in 1..Len(plan[1].payload) : (EmbeddedFrame(j) /\ CleanBefore(j)) => FailedThenPacket(j)

\* C2 witness: the backtracking decoder has emitted FailedChecksum for such
\* a frame and then the Packet of the frame in its payload.
BacktrackingRecoveryWitness ==
  /\ impl = "backtrack"
  /\ FailedFirstFrame
  /\ \E j \in 1..Len(plan[1].payload) : EmbeddedFrame(j) /\ CleanBefore(j) /\ FailedThenPacket(j)

\* C3: the decoder of index.js resumes scanning right after the failed
\* frame's sync trailer, so that a well-formed frame in the failed frame's
\* body (nothing but non-0xB5 bytes in front of it) is still emitted.
IndexRecovery ==
  (impl = "index" /\ FailedFirstFrame) =>
    \A j \in 1..Len(plan[1].payload) : (EmbeddedFrame(j) /\ CleanBefore(j)) => FailedThenPacket(j)

\* --- single steps of the loop ------------------------------------------------
\* The byte at stream offset o.
At(o) == wire[o + 1]

Last(seq) == seq[Len(seq)]

\* The loop is about to examine a byte in packet state st.
Examining(st) ==
  /\ pc = "loop"
  /\ i < Len(data)
  /\ parser.packetStartFound
  /\ parser.packetState = st

\* The step emits exactly one output, named name, and resets the frame.
Rejects(name) ==
  /\ Len(out') = Len(out) + 1
  /\ SubSeq(out', 1, Len(out)) = out
  /\ Last(out').event = name
  /\ parser'.packet = packetTemplate
  /\ parser'.payloadPosition = 0
  /\ ~parser'.packetStartFound
  /\ parser'.packetState = PACKET_SYNC_1

\* C4: validator verdict. The step that receives the high length byte, with
\* length = low + 256 * high, does exactly one of: (1) limit # 0 and
\* length > limit: PayloadTooLarge with the limit, reset; (2) else length 0:
\* on to the checksum phase with an empty payload and no event, whatever the
\* length table says; (3) else table entry # length: WrongPayloadLength with
\* the expected length, reset; (4) else on to payload accumulation, no event,
\* no payload byte consumed. The scan position advances by one byte in all
\* cases (no rewind).
ValidatorVerdict ==
  [][Examining(PACKET_LENGTH) =>
       LET off == offs[i + 1]
           cls == At(off - 3)
           id == At(off - 2)
           len == At(off - 1) + 256 * At(off)
       IN /\ data[i + 1] = At(off)
          /\ i' = i + 1 /\ data' = data /\ offs' = offs
          /\ parser'.streamIndex = parser.streamIndex + 1
          /\ IF MaxLen # 0 /\ len > MaxLen
             THEN Rejects("payload_too_large") /\ Last(out').arg.maxPacketPayloadLength = MaxLen
             ELSE IF len = 0
             THEN /\ out' = out
                  /\ parser'.packetStartFound
                  /\ parser'.packetState = PACKET_PAYLOAD
                  /\ parser'.packet.length = 0
                  /\ parser'.packet.payload = << >>
             ELSE IF HasExpectedLength(cls, id) /\ packetClassIdToLength[<<cls, id>>] # len
             THEN /\ Rejects("wrong_payload_length")
                  /\ Last(out').arg.expectedPayloadLength = packetClassIdToLength[<<cls, id>>]
             ELSE /\ out' = out
                  /\ parser'.packetStartFound
                  /\ parser'.packetState = PACKET_LENGTH_2
                  /\ parser'.packet.length = len
                  /\ parser'.packet.payload = Null
                  /\ parser'.payloadPosition = 0
  ]_vars

\* C4 witness: after a rejection earlier in the stream, a zero-length frame
\* of a class and id with a non-zero table entry has gone straight to the
\* checksum phase.
ValidatorVerdictWitness ==
  /\ Examining(PACKET_PAYLOAD)
  /\ parser.packet.length = 0
  /\ parser.packet.payload = << >>
  /\ HasExpectedLength(parser.packet.class, parser.packet.id)
  /\ out # << >>
  /\ out[1].event \in {"payload_too_large", "wrong_payload_length"}

\* C5: checksum correctness. At the second checksum byte calcCheckSum of the
\* assembled frame is (b << 8) | a of the Fletcher fold over the frame's
\* bytes [class, id, lengthLow, lengthHigh, payload...] as they stand in the
\* stream, and the frame is accepted (Packet or PollingMessage) exactly when
\* the first received checksum byte is a and the second is b; otherwise
\* FailedChecksum carries the computed value.
ChecksumCorrect ==
  [][Examining(PACKET_CHECKSUM) =>
       LET off == offs[i + 1]
           body == SubSeq(wire, classOff + 1, off - 1)
           ref == Fletcher8(body, 0, 0)
           p == parser.packet
       IN /\ body = << p.class, p.id, p.length % 256, p.length \div 256 >> \o p.payload
          /\ calcCheckSum(p.class, p.id, p.length, p.payload) = ref[2] * 256 + ref[1]
          /\ Len(out') = Len(out) + 1
          /\ (Last(out').event \in {"data", "polling_message"})
               <=> (At(off - 1) = ref[1] /\ At(off) = ref[2])
          /\ (Last(out').event \notin {"data", "polling_message"})
               => /\ Last(out').event = "failed_checksum"
                  /\ Last(out').arg.checksum = ref[2] * 256 + ref[1]
  ]_vars

\* C5 witness: a frame with an empty payload has failed its checksum and a
\* frame with a payload has passed it.
ChecksumCorrectWitness ==
  /\ \E k \in 1..Len(out) : out[k].event = "failed_checksum" /\ out[k].arg.packet.payload = << >>
  /\ \E k \in 1..Len(out) : out[k].event = "data"

\* --- whole streams -----------------------------------------------------------
\* Piece x is a well-formed data frame that the validator accepts.
GoodDataFrame(x) ==
  /\ x.frame /\ x.ckOK
  /\ Len(x.payload) >= 1
  /\ Accepted(MaxLen, x.cls, x.id, Len(x.payload))

PacketOf(x) == [messageClass |-> x.cls, messageId |-> x.id, payload |-> x.payload]

\* The stream is an oversize frame followed by a well-formed frame, and all
\* of it has been handed over and processed.
OversizeThenGood ==
  /\ Len(plan) = 2
  /\ MaxLen # 0
  /\ plan[1].frame /\ Len(plan[1].payload) > MaxLen
  /\ GoodDataFrame(plan[2])
  /\ pc # "loop"
  /\ pos = Len(wire)

\* PayloadTooLarge for the first frame, no Packet for it, and the Packet of
\* the second frame.
RejectedThenPacket ==
  /\ \E k \in 1..Len(out) :
       /\ out[k].event = "payload_too_large"
       /\ out[k].start = 2
       /\ out[k].arg.maxPacketPayloadLength = MaxLen
  /\ \A k \in 1..Len(out) : out[k].event = "data" => out[k].start # 2
  /\ \E k \in 1..Len(out) :
       /\ out[k].event = "data"
       /\ out[k].start = Len(plan[1].bytes) + 2
       /\ out[k].arg = PacketOf(plan[2])

\* C6 as stated: with a limit m # 0, a frame declaring a length > m,
\* whatever its payload and checksum bytes, followed by a well-formed frame
\* yields PayloadTooLarge, no Packet for itself, and the Packet of the
\* following frame.
SizeRejectionRecoveryAnyBytes == OversizeThenGood => RejectedThenPacket

\* The oversize frame's payload and checksum bytes hold no 0xB5.
CleanOversize ==
  \A k \in 7..Len(plan[1].bytes) : plan[1].bytes[k] # SYNC_CHAR_1

\* C6 amended: the same, for oversize frames whose payload and checksum
\* bytes contain no 0xB5.
SizeRejectionRecovery == (OversizeThenGood /\ CleanOversize) => RejectedThenPacket

\* C6 witness: such a stream has been decoded.
SizeRejectionRecoveryWitness == OversizeThenGood /\ CleanOversize /\ RejectedThenPacket

\* The output belongs to a frame that was read up to its last byte.
WholeFrame(e) == e.event \in {"data", "polling_message", "failed_checksum"}

Soundness ==
  /\ parser.packetState \in PACKET_SYNC_1..PACKET_CHECKSUM
  /\ (parser.packetStartFound /\ parser.packetState \in {PACKET_PAYLOAD, PACKET_CHECKSUM})
       => parser.packet.payload # Null
  /\ (parser.packetStartFound /\ parser.packetState = PACKET_LENGTH_2 /\ parser.packet.payload # Null)
       => parser.payloadPosition < Len(parser.packet.payload)
  /\ pc = "loop" => (i >= 0 /\ i <= Len(data))
  /\ \A k \in 1..Len(out) :
       out[k].event = "data" =>
         LET e == out[k]
             len == At(e.start + 2) + 256 * At(e.start + 3)
         IN /\ len >= 1
            /\ Len(e.arg.payload) = len
            /\ MaxLen # 0 => len <= MaxLen
            /\ HasExpectedLength(e.arg.messageClass, e.arg.messageId)
                 => packetClassIdToLength[<<e.arg.messageClass, e.arg.messageId>>] = len
            /\ e.at = e.start + len + 5
            /\ e.arg.messageClass = At(e.start)
            /\ e.arg.messageId = At(e.start + 1)
            /\ e.arg.payload = SubSeq(wire, e.start + 5, e.start + 4 + len)
            /\ << At(e.at - 1), At(e.at) >> = Fletcher8(SubSeq(wire, e.start + 1, e.at - 1), 0, 0)

\* C8 witness: a Packet of a class and id with a table entry has been
\* emitted under a limit.
SoundnessWitness ==
  /\ MaxLen # 0
  /\ \E k \in 1..Len(out) :
       /\ out[k].event = "data"
       /\ HasExpectedLength(out[k].arg.messageClass, out[k].arg.messageId)

\* C9: zero-length frames. Every output of a frame that declares length 0
\* comes with the frame's sixth byte after the sync trailer (no payload byte
\* consumed), is PollingMessage when the two bytes after the length match
\* the checksum and FailedChecksum when they do not, never a Packet, and no
\* frame gives two outputs; a zero-length frame at the start of the stream
\* has its output as soon as its eight bytes are processed.
ZeroLengthFrames ==
  /\ \A k \in 1..Len(out) :
       LET e == out[k]
       IN (e.start >= 2 /\ At(e.start + 2) = 0 /\ At(e.start + 3) = 0) =>
            /\ e.at = e.start + 5
            /\ e.event = IF << At(e.at - 1), At(e.at) >>
                              = Fletcher8(SubSeq(wire, e.start + 1, e.start + 4), 0, 0)
                         THEN "polling_message" ELSE "failed_checksum"
            /\ \A k2 \in 1..Len(out) : out[k2].start = e.start => k2 = k
  /\ (plan # << >> /\ plan[1].frame /\ plan[1].payload = << >> /\ pc # "loop" /\ pos >= 8)
       => (out # << >> /\ out[1].start = 2
           /\ out[1].event = IF plan[1].ckOK THEN "polling_message" ELSE "failed_checksum")

\* C9 witness: a zero-length frame with a wrong checksum and one with a
\* matching checksum have been decoded.
ZeroLengthFramesWitness ==
  /\ \E k \in 1..Len(out) : out[k].event = "polling_message" /\ out[k].at = out[k].start + 5
  /\ \E k \in 1..Len(out) :
       /\ out[k].event = "failed_checksum"
       /\ out[k].arg.packet.length = 0
       /\ out[k].at = out[k].start + 5

\* The Packets of the frames of pieces that lie completely within the first
\* n bytes of the stream.
RECURSIVE PacketsWithin(_, _)
PacketsWithin(pieces, n) ==
  IF pieces = << >> \/ Len(Head(pieces).bytes) > n THEN << >>
  ELSE << PacketOf(Head(pieces)) >> \o PacketsWithin(Tail(pieces), n - Len(Head(pieces).bytes))

\* C10: completeness. For a stream of N >= 0 well-formed data frames that
\* the validator accepts, fed in any chunks, the outputs after every call
\* are exactly the Packets of the frames handed over completely, in input
\* order, with their class, id and payload, and no diagnostic event.
Completeness ==
  (pc # "loop" /\ \A k \in 1..Len(plan) : GoodDataFrame(plan[k])) =>
    /\ Len(out) = Len(PacketsWithin(plan, pos))
    /\ \A k \in 1..Len(out) :
         out[k].event = "data" /\ out[k].arg = PacketsWithin(plan, pos)[k]

\* C10 witness: two well-formed frames, the second split over chunks, have
\* given their two Packets.
CompletenessWitness ==
  /\ Len(plan) = 2
  /\ \A k \in 1..Len(plan) : GoodDataFrame(plan[k])
  /\ pc = "idle"
  /\ pos = Len(wire)
  /\ Len(out) = 2
  /\ out[2].start > 2

\* --- stream end ---------------------------------------------------------------
\* Piece x is a well-formed frame (data or polling) that the validator accepts.
WellFormedFrame(x) ==
  /\ x.frame /\ x.ckOK
  /\ Accepted(MaxLen, x.cls, x.id, Len(x.payload))

\* C11: no partial emission. While only a proper prefix of a single
\* well-formed frame has been fed to a freshly constructed decoder, nothing
\* has been emitted (no Packet, no diagnostic event), also after _flush; and
\* after _flush the decoder scans for sync with its frame in progress at the
\* defaults.
NoPartialEmission ==
  (Len(plan) = 1 /\ WellFormedFrame(plan[1]) /\ pos < Len(wire)) =>
    /\ out = << >>
    /\ pc = "ended" =>
         /\ ~parser.packetStartFound
         /\ parser.packetState = PACKET_SYNC_1
         /\ parser.packet = packetTemplate
         /\ parser.payloadPosition = 0

\* C11 witness: the stream has ended after the first checksum byte of a
\* well-formed frame with a payload, fed in more than one chunk.
NoPartialEmissionWitness ==
  /\ Len(plan) = 1
  /\ WellFormedFrame(plan[1])
  /\ Len(plan[1].payload) >= 2
  /\ pos = Len(wire) - 1
  /\ parser.streamIndex = pos
  /\ pc = "ended"
  /\ out = << >>
  /\ parser.packet = packetTemplate

\* --- terminal transitions -----------------------------------------------------
\* The decoder scans for sync and its frame in progress is at the defaults:
\* the packet is a copy of the template (no auxiliary length or checksum
\* byte fields) and the payload write position is 0.
AtDefaults(this) ==
  /\ ~this.packetStartFound
  /\ this.packetState = PACKET_SYNC_1
  /\ this.packet = packetTemplate
  /\ this.payloadPosition = 0

\* The back track has just re-injected a failed frame: the loop is about to
\* examine the first re-injected byte.
JustBackTracked ==
  /\ pc = "loop"
  /\ impl = "backtrack"
  /\ i = 0
  /\ data # << >>
  /\ out # << >>
  /\ Last(out).event = "failed_checksum"
  /\ offs[1] <= Last(out).at

\* C12: reset on every terminal transition. Every step that emits a Packet,
\* PollingMessage, PayloadTooLarge, WrongPayloadLength or FailedChecksum,
\* that meets a byte other than 0x62 and 0xB5 while awaiting the sync
\* trailer, or that ends the stream, leaves the decoder scanning for sync
\* with every field of the frame in progress at its default.
ResetOnTerminal ==
  [][(\/ out' # out
      \/ (Examining(PACKET_SYNC_1) /\ data[i + 1] \notin {SYNC_CHAR_1, SYNC_CHAR_2} /\ i' # i)
      \/ (pc = "idle" /\ pc' = "ended"))
     => AtDefaults(parser')]_vars

\* C12 witness: the backtracking decoder has emitted FailedChecksum for a
\* frame with a payload, re-injected it, and stands reset.
ResetOnTerminalWitness ==
  /\ JustBackTracked
  /\ Last(out).arg.packet.payload # << >>
  /\ Last(out).arg.packet.length1 >= 1
  /\ AtDefaults(parser)

\* --- sync scanning --------------------------------------------------------------
\* The loop is about to examine a byte while scanning for sync.
ExaminingIdle ==
  /\ pc = "loop"
  /\ i < Len(data)
  /\ ~parser.packetStartFound

\* The step consumes exactly the byte examined and emits nothing.
ConsumesOneByte ==
  /\ i' = i + 1
  /\ data' = data
  /\ out' = out
  /\ parser'.streamIndex = parser.streamIndex + 1

\* C13: sync scanning. While scanning for sync a byte other than 0xB5 is
\* discarded with no change of the decoder but its stream position, and 0xB5
\* starts the wait for the sync trailer. While awaiting the sync trailer 0x62
\* moves on to the class byte, a further 0xB5 keeps waiting, and any other
\* byte returns the decoder to scanning for sync at its defaults. Each of
\* these steps consumes exactly one byte and emits nothing, so the byte after
\* it is examined next.
SyncScanning ==
  [][/\ ExaminingIdle =>
          /\ ConsumesOneByte
          /\ IF data[i + 1] = SYNC_CHAR_1
             THEN parser' = [parser EXCEPT !.packetStartFound = TRUE,
                                           !.packetState = PACKET_SYNC_1,
                                           !.streamIndex = @ + 1]
             ELSE parser' = [parser EXCEPT !.streamIndex = @ + 1]
     /\ Examining(PACKET_SYNC_1) =>
          /\ ConsumesOneByte
          /\ CASE data[i + 1] = SYNC_CHAR_2 ->
                    parser' = [parser EXCEPT !.packetState = PACKET_SYNC_2, !.streamIndex = @ + 1]
               [] data[i + 1] = SYNC_CHAR_1 ->
                    parser' = [parser EXCEPT !.streamIndex = @ + 1]
               [] OTHER ->
                    /\ AtDefaults(parser')
                    /\ parser'.maxPacketPayloadLength = parser.maxPacketPayloadLength]_vars

\* C13 witness: the sync trailer 0x62 came after two 0xB5 in a row, and the
\* decoder is about to examine the class byte.
SyncScanningWitness ==
  /\ Examining(PACKET_SYNC_2)
  /\ offs[i + 1] >= 3
  /\ At(offs[i + 1] - 1) = SYNC_CHAR_2
  /\ At(offs[i + 1] - 2) = SYNC_CHAR_1
  /\ At(offs[i + 1] - 3) = SYNC_CHAR_1

\* --- the back track -------------------------------------------------------------
\* The number of bytes in the working buffer that the loop had consumed
\* before the failure (stream offsets up to the failed frame's last byte).
Reinjected == Cardinality({ k \in 1..Len(offs) : offs[k] <= Last(out).at })

\* C14 as stated: a checksum failure of a frame with declared length L
\* re-injects at most L + 4 already-consumed bytes.
ReexaminationWithinLengthPlus4 ==
  JustBackTracked => Reinjected <= Last(out).arg.packet.length + 4

\* C14 amended: a checksum failure of a frame with declared length L
\* re-injects exactly L + 6 already-consumed bytes (class, id, two length
\* bytes, L payload bytes, two checksum bytes), all of them of the failed
\* frame, and never the two sync bytes.
ReexaminationBound ==
  JustBackTracked =>
    /\ Reinjected = Last(out).arg.packet.length + 6
    /\ \A k \in 1..Len(offs) : offs[k] >= Last(out).start
    /\ Last(out).at - Last(out).start + 1 = Last(out).arg.packet.length + 6

\* C14 witness: a frame with a payload of 9 bytes has failed its checksum and
\* its 15 bytes are back in the working buffer.
ReexaminationBoundWitness ==
  /\ JustBackTracked
  /\ Last(out).arg.packet.length = Len(InnerFrame)
  /\ Reinjected = Len(InnerFrame) + 6

\* --- configuration --------------------------------------------------------------
\* The options argument of the constructor: an object (a record, << >> for
\* none or for an object without the option).
constructor(options) ==
  NewParser(IF "maxPacketPayloadLength" \in DOMAIN options
            THEN options.maxPacketPayloadLength
            ELSE DEFAULT_MAX_PACKET_PAYLOAD_LENGTH)

\* The options a caller can pass: none, the check disabled, a negative limit.
Options ==
  { << >>, [maxPacketPayloadLength |-> 0], [maxPacketPayloadLength |-> -1] }

InitAnyOptions ==
  /\ impl \in Impls
  /\ plan \in Plans
  /\ wire = Flatten(plan)
  /\ pos = 0
  /\ pc = "idle"
  /\ \E options \in Options : parser = constructor(options)
  /\ data = << >>
  /\ i = 0
  /\ offs = << >>
  /\ classOff = -1
  /\ out = << >>
  /\ chunkStart = 0
  /\ spanned = FALSE

\* The decoder constructed with whatever options the caller passes.
SpecAnyOptions == InitAnyOptions /\ [][Next]_vars

\* C15: configuration contract. A negative limit is refused at construction
\* and never acted on during decoding: no frame is rejected as
\* PayloadTooLarge against a limit that is not positive, and a zero-length
\* frame is never rejected as PayloadTooLarge.
ConfigurationContract ==
  \A k \in 1..Len(out) :
    out[k].event = "payload_too_large" =>
      /\ out[k].arg.maxPacketPayloadLength > 0
      /\ out[k].arg.packet.length > 0

\* C16: exact rewind. Inside _transform the working buffer is, byte for byte,
\* a run of consecutive bytes of the stream that ends with the last byte of
\* the current chunk, and streamIndex is the stream offset of the byte about
\* to be examined. Right after a back track the buffer starts with the failed
\* frame's class byte (the byte after its sync trailer) and holds the frame's
\* bytes up to its second checksum byte in front of the unread rest of the
\* chunk, also when the frame began in an earlier chunk, and the decoder scans
\* for sync. When a _transform call has returned, streamIndex is the number of
\* bytes fed so far.
ExactRewind ==
  /\ pc = "loop" =>
       /\ \A k \in 1..Len(data) : data[k] = At(offs[k])
       /\ \A k \in 1..(Len(data) - 1) : offs[k + 1] = offs[k] + 1
       /\ data # << >> => offs[Len(data)] = pos - 1
       /\ i < Len(data) => parser.streamIndex = offs[i + 1]
       /\ i >= Len(data) => parser.streamIndex = pos
  /\ JustBackTracked =>
       /\ offs[1] = Last(out).start
       /\ At(offs[1] - 2) = SYNC_CHAR_1
       /\ At(offs[1] - 1) = SYNC_CHAR_2
       /\ data[1] = Last(out).arg.packet.class
       /\ SubSeq(data, 1, Reinjected) = SubSeq(wire, Last(out).start + 1, Last(out).at + 1)
       /\ AtDefaults(parser)
  /\ pc # "loop" => parser.streamIndex = pos

\* C16 witness: a failed frame with a payload that began in an earlier chunk
\* is back in the working buffer, in front of unread bytes of the chunk.
ExactRewindWitness ==
  /\ JustBackTracked
  /\ Last(out).start < chunkStart
  /\ Last(out).arg.packet.length >= 1
  /\ Len(data) > Reinjected
  /\ parser.streamIndex = Last(out).start

\* --- the frame in progress -------------------------------------------------------
\* C17: frame-in-progress invariant. In every state of both decoders the
\* payload write position is at most the length; the payload buffer exists
\* only while the decoder is inside a frame whose length the validator has
\* accepted (states PACKET_LENGTH_2, PACKET_PAYLOAD, PACKET_CHECKSUM), has
\* exactly the declared length, and is the one buffer of the frame: it holds
\* all the payload bytes received so far; in both checksum states the buffer
\* exists and the write position equals the length.
FrameInProgress ==
  LET p == parser.packet
  IN /\ parser.payloadPosition >= 0
     /\ parser.payloadPosition <= p.length
     /\ p.payload # Null =>
          /\ parser.packetStartFound
          /\ parser.packetState \in {PACKET_LENGTH_2, PACKET_PAYLOAD, PACKET_CHECKSUM}
          /\ Len(p.payload) = p.length
          /\ p.length = At(classOff + 2) + 256 * At(classOff + 3)
          /\ Accepted(MaxLen, p.class, p.id, p.length)
          /\ \A k \in 1..parser.payloadPosition : p.payload[k] = At(classOff + 3 + k)
     /\ (parser.packetStartFound /\ parser.packetState \in {PACKET_PAYLOAD, PACKET_CHECKSUM}) =>
          /\ p.payload # Null
          /\ parser.payloadPosition = p.length

\* C17 witness: between the two checksum bytes of a frame with a payload of
\* at least two bytes, the first of them not 0.
FrameInProgressWitness ==
  /\ Examining(PACKET_CHECKSUM)
  /\ parser.packet.payload # Null
  /\ parser.payloadPosition >= 2
  /\ parser.packet.payload[1] # 0

\* --- termination -----------------------------------------------------------------
\* A frame with a wrong checksum whose payload is a zero-length frame with a
\* wrong checksum.
NestedFailure == FramePiece(1, 1, FrameBytes(1, 1, << >>, 1), 1)

\* The streams on which the backtracking decoder rewinds: those with a frame
\* whose checksum is wrong.
RewindPlans ==
  { pl \in Plans : \E k \in 1..Len(pl) : pl[k].frame /\ ~pl[k].ckOK } \cup { << NestedFailure >> }

InitRewinds ==
  /\ impl = "backtrack"
  /\ plan \in RewindPlans
  /\ wire = Flatten(plan)
  /\ pos = 0
  /\ pc = "idle"
  /\ \E maxLen \in MaxLengths : parser = NewParser(maxLen)
  /\ data = << >>
  /\ i = 0
  /\ offs = << >>
  /\ classOff = -1
  /\ out = << >>
  /\ chunkStart = 0
  /\ spanned = FALSE

\* A running _transform call is never suspended: its loop keeps iterating
\* while bytes are left in the working buffer, and then it returns. The loop
\* is LoopStep, which is enabled exactly when pc = "loop" and i < Len(data),
\* always changes i or out, and is the only step from "loop" to "loop"; its
\* weak fairness WF_vars(LoopStep) is written out in these terms.
LoopFairness ==
  \/ []<>~(pc = "loop" /\ i < Len(data))
  \/ []<><<pc = "loop" /\ pc' = "loop">>_vars

SpecFair == InitRewinds /\ [][Next]_vars /\ LoopFairness /\ WF_vars(TransformReturn)

\* C18: termination of a chunk. Every _transform call of the backtracking
\* decoder returns, whatever state the decoder was in when it was called and
\* however often it rewinds within the call, repeatedly or nested.
TransformTerminates == (pc = "loop") ~> (pc = "idle")

\* Two failed frames, the second one inside the body of the first.
NestedRewinds ==
  \E k1, k2 \in 1..Len(out) :
    /\ k1 < k2
    /\ out[k1].event = "failed_checksum"
    /\ out[k2].event = "failed_checksum"
    /\ out[k2].start > out[k1].start
    /\ out[k2].at < out[k1].at

\* C18 witness: a call in which the decoder rewound for a frame and, while
\* re-scanning it, rewound again for a frame in its body, has returned.
TransformTerminatesWitness ==
  /\ impl = "backtrack"
  /\ pc = "idle"
  /\ NestedRewinds
  /\ pos = Len(wire)

\* --- the two decoders ----------------------------------------------------------------
\* The fields of the frame in progress that both decoders have.
Frame(p) ==
  [class |-> p.class, id |-> p.id, length |-> p.length, payload |-> p.payload,
   checksum |-> p.checksum]

\* Outputs with their frame snapshots cut down to those fields.
Outputs(o) ==
  [k \in 1..Len(o) |->
     IF o[k].event = "data" THEN o[k] ELSE [o[k] EXCEPT !.arg.packet = Frame(@)]]

Failures(o) == { k \in 1..Len(o) : o[k].event = "failed_checksum" }

\* The outputs up to and including the first FailedChecksum (all of them when
\* there is none).
UpToFirstFailure(o) ==
  IF Failures(o) = {} THEN o
  ELSE SubSeq(o, 1, CHOOSE k \in Failures(o) : \A k2 \in Failures(o) : k <= k2)

\* The decoder of the other file run on the same bytes.
OtherRun ==
  Loop(IF impl = "index" THEN "backtrack" ELSE "index", StartMachine(MaxLen, Delivered))

\* The decoder objects of index.js and of part_000 after the same bytes.
IndexParser == IF impl = "index" THEN parser ELSE OtherRun.this
BacktrackParser == IF impl = "index" THEN OtherRun.this ELSE parser

\* C19 as stated: after every call the outputs of the two decoders are the
\* same up to and including the first FailedChecksum, and without a
\* FailedChecksum all outputs and the decoder states (state, frame in
\* progress, streamIndex) are the same.
ImplementationsAgreeOnState ==
  pc = "idle" =>
    /\ UpToFirstFailure(Outputs(out)) = UpToFirstFailure(Outputs(OtherRun.out))
    /\ Failures(out) = {} =>
         /\ Outputs(out) = Outputs(OtherRun.out)
         /\ [parser EXCEPT !.packet = Frame(@)] = [OtherRun.this EXCEPT !.packet = Frame(@)]

\* C19 amended: the same, but between the two length bytes and between the
\* two checksum bytes of a frame the value of the first byte stands in
\* length / checksum in index.js and in length1 / checksum1 in part_000,
\* whose length / checksum are still 0; everything else of the state agrees.
ImplementationsAgree ==
  pc = "idle" =>
    /\ UpToFirstFailure(Outputs(out)) = UpToFirstFailure(Outputs(OtherRun.out))
    /\ Failures(out) = {} =>
         LET a == IndexParser
             b == BacktrackParser
             inFrame == a.packetStartFound
         IN /\ Outputs(out) = Outputs(OtherRun.out)
            /\ [a EXCEPT !.packet = << >>] = [b EXCEPT !.packet = << >>]
            /\ a.packet.class = b.packet.class
            /\ a.packet.id = b.packet.id
            /\ a.packet.payload = b.packet.payload
            /\ IF inFrame /\ a.packetState = PACKET_LENGTH
               THEN a.packet.length = b.packet.length1 /\ b.packet.length = 0
               ELSE a.packet.length = b.packet.length
            /\ IF inFrame /\ a.packetState = PACKET_CHECKSUM
               THEN a.packet.checksum = b.packet.checksum1 /\ b.packet.checksum = 0
               ELSE a.packet.checksum = b.packet.checksum

\* C19 witness: the backtracking decoder has returned with a
\* FailedChecksum and, after it, a Packet that the decoder of index.js does
\* not have.
ImplementationsAgreeWitness ==
  /\ pc = "idle"
  /\ impl = "backtrack"
  /\ Failures(out) # {}
  /\ Last(out).event = "data"
  /\ Len(out) > Len(OtherRun.out)

\* --- no fabricated packets -------------------------------------------------------------
\* C20: no fabricated packets. Every Packet emitted by the backtracking
\* decoder is a frame that stands in the stream: at the offsets the Packet
\* was read from there are 0xB5 0x62, the Packet's class and id, the two
\* length bytes, a payload of that length equal to the Packet's, and the two
\* bytes of the checksum of class to payload; and no two Packets come from
\* the same place of the stream, re-scanned bytes included.
NoFabricatedPackets ==
  impl = "backtrack" =>
    \A k \in 1..Len(out) :
      out[k].event = "data" =>
        /\ out[k].start >= 2
        /\ WellFormedAt(wire, out[k].start - 1)
        /\ out[k].arg = FrameAt(wire, out[k].start - 1)
        /\ out[k].at = out[k].start + 5 + DeclaredLength(wire, out[k].start - 1)
        /\ \A k2 \in 1..Len(out) :
             (out[k2].event = "data" /\ out[k2].start = out[k].start) => k2 = k

\* C20 witness: the backtracking decoder has emitted FailedChecksum for a
\* frame that began in an earlier chunk and then the Packet of a frame found
\* while re-scanning the re-injected bytes.
NoFabricatedPacketsWitness ==
  /\ impl = "backtrack"
  /\ \E k \in 2..Len(out) :
       /\ out[k].event = "data"
       /\ out[k - 1].event = "failed_checksum"
       /\ out[k].at < out[k - 1].at
       /\ out[k - 1].start < chunkStart

====
